---- MODULE Spec2Model ----
(***************************************************************************)
(* HyderFleet Pro client: the session (App.js), the live map view          *)
(* (MapView.js: snapshot fetch of vehicles and zones, push messages over   *)
(* the socket) and the alerts view (Alerts.js: snapshot fetch per filter,  *)
(* acknowledge).  One action per handler; a request that awaits the        *)
(* network is an entry of `inflight` and resolves in a later action.      *)
(***************************************************************************)
EXTENDS Integers, Sequences, FiniteSets, TLC

(* ---------------------------- bounds ----------------------------------- *)
MaxInFlight == 2      \* requests awaiting their response at one time
MaxEpoch == 1         \* logouts followed in one behaviour

(* ---------------------------- domains ---------------------------------- *)
VehicleIds == {"V1", "V2"}
AlertIds == {"A1", "A2"}
Roles == {"admin", "viewer"}
Filters == {"all", "unacknowledged", "acknowledged"}
MessageTypes == {"vehicle_update", "alert"}
PatchStatuses == {"en-route", "maintenance"}
PatchVersions == {3, 5}
SnapshotVersions == {0}
Views == {"fleet", "map", "alerts"}

NoUser == "none"
NoToken == "none"
NoToast == "none"
NoDetail == "none"

(* Why a request is rejected: the backend refuses the token (an HTTP 401  *)
(* response), or the request fails otherwise (network error, another       *)
(* non-2xx response).                                                      *)
NoCause == "none"
FailureCauses == {"auth", "transport"}

(* The `detail` of an error response of the acknowledge endpoint. *)
ErrorDetails == {NoDetail, "Alert not found"}

(* A vehicle as the backend returns it in a collection. *)
SnapshotVehicles ==
  [id : VehicleIds, status : {"idle"}, current_load : {0},
   last_updated : SnapshotVersions]

(* The data of a push message: a partial Vehicle.  last_updated is its     *)
(* logical version.                                                        *)
Patches == [id : VehicleIds, status : PatchStatuses, last_updated : PatchVersions]

NoPatch == [id |-> "none", status |-> "none", last_updated |-> 0]

RECURSIVE SeqsOver(_, _)
(* The sequences that hold, for each id of the list ids in order, either   *)
(* nothing or one record of recs with that id.                             *)
SeqsOver(ids, recs) ==
  IF ids = <<>> THEN {<<>>}
  ELSE LET rest == SeqsOver(Tail(ids), recs)
       IN rest \cup {<<r>> \o s : r \in {x \in recs : x.id = Head(ids)}, s \in rest}

VehicleCollections == SeqsOver(<<"V1", "V2">>, SnapshotVehicles)

ZoneCollections ==
  {<<[id |-> "Z1", delay_count |-> 10]>>, <<[id |-> "Z1", delay_count |-> 11]>>}

AlertRecords == [id : AlertIds, acknowledged : BOOLEAN]

AllAlertCollections == SeqsOver(<<"A1", "A2">>, AlertRecords)

(* GET /alerts?acknowledged=... returns only the alerts of the filter. *)
AlertCollections(f) ==
  {c \in AllAlertCollections :
     \A k \in 1..Len(c) :
        \/ f = "all"
        \/ c[k].acknowledged = (f = "acknowledged")}

(* ------------------------- analytics data ------------------------------ *)
(* JavaScript values of the analytics aggregate: numbers, null, undefined. *)
Num(n) == [type |-> "number", n |-> n]
Null == [type |-> "null", n |-> 0]
Undefined == [type |-> "undefined", n |-> 0]

(* ToBoolean(x) = false *)
Falsy(x) == x.type \in {"null", "undefined"} \/ (x.type = "number" /\ x.n = 0)

(* x || y *)
Or(x, y) == IF Falsy(x) THEN y ELSE x

(* useState(null): no aggregate.  Reading a field of it through ?. gives   *)
(* undefined.                                                              *)
NoAggregate ==
  [type |-> "null", on_time_percentage |-> Undefined, on_time_jobs |-> Undefined,
   total_jobs |-> Undefined]

(* The data of GET /analytics/on-time-percentage.  With no delivered job   *)
(* the backend gives the percentage 0, or no value for it.                 *)
OnTimeResponses ==
  {[type |-> "object", on_time_percentage |-> p, on_time_jobs |-> Num(0),
    total_jobs |-> Num(0)] : p \in {Num(0), Null}}
  \cup
  {[type |-> "object", on_time_percentage |-> Num(50 * j), on_time_jobs |-> Num(j),
    total_jobs |-> Num(2)] : j \in 0..2}

(* The days of the trailing window, oldest first: 28 October to 3 November. *)
WindowDays == 7

WindowDay(k) ==
  IF 27 + k <= 31 THEN [month |-> 10, day |-> 27 + k]
  ELSE [month |-> 11, day |-> k - 4]

(* The orders in which the backend's daily_deliveries object can list the  *)
(* days of the window: oldest first, newest first, by day of the month.    *)
DayOrders ==
  {[k \in 1..WindowDays |-> k],
   [k \in 1..WindowDays |-> WindowDays + 1 - k],
   [k \in 1..WindowDays |-> ((k + 3) % WindowDays) + 1]}

(* The counts per day of the window: two deliveries on every day, or on   *)
(* every day but the third, which has none.                                *)
DayCounts ==
  {[k \in 1..WindowDays |-> IF k = z THEN 0 ELSE 2] : z \in {0, 3}}

(* Object.entries(dailyRes.data.daily_deliveries): one [date, count] entry *)
(* for each day of the window, in the object's key order.                  *)
DailyResponses ==
  {[k \in 1..WindowDays |-> [date |-> WindowDay(o[k]), count |-> c[o[k]]]] :
     o \in DayOrders, c \in DayCounts}

(* new Date(date), as a number of days. *)
DateValue(date) == date.month * 31 + date.day

RECURSIVE SortByDate(_)
(* Array.prototype.sort((a, b) => new Date(a.date) - new Date(b.date)):    *)
(* ascending by date, entries of equal date in their order.                *)
SortByDate(s) ==
  IF s = <<>> THEN <<>>
  ELSE LET x == s[Len(s)]
           front == SortByDate(SubSeq(s, 1, Len(s) - 1))
           before == SelectSeq(front, LAMBDA e : DateValue(e.date) <= DateValue(x.date))
           after == SelectSeq(front, LAMBDA e : DateValue(e.date) > DateValue(x.date))
       IN before \o <<x>> \o after

(* DailySeries without the sort. *)
DailySeries_unsorted(entries) ==
  [k \in 1..Len(entries) |->
     [date |-> entries[k].date, deliveries |-> entries[k].count]]

(* The dailyData of fetchAnalytics: the entries mapped to                  *)
(* {date, deliveries} and sorted by date.                                  *)
DailySeries(entries) ==
  SortByDate([k \in 1..Len(entries) |->
                [date |-> entries[k].date, deliveries |-> entries[k].count]])

(* onTimePercentage?.on_time_percentage without the `|| 0`. *)
OnTimeShown_raw(agg) == agg.on_time_percentage

(* The on-time rate the Analytics page shows:                              *)
(* onTimePercentage?.on_time_percentage || 0                               *)
OnTimeShown(agg) == Or(agg.on_time_percentage, Num(0))

(* --------------------------- zone delays -------------------------------- *)
(* The `10` of zone.delay_count > 10 in MapView and in Analytics. *)
MapDelayThreshold == 10
AnalyticsDelayThreshold == 10

(* The colour of a zone's circle on the map. *)
MapZoneColor(zone) ==
  IF zone.delay_count > MapDelayThreshold THEN "#ef4444" ELSE "#3b82f6"

(* The text of the map popup: Delays: {zone.delay_count} *)
MapZoneDelayShown(zone) == zone.delay_count

(* ZoneCardLabel with the boundary at >= 10. *)
ZoneCardLabel_atLeast(zone) ==
  IF zone.delay_count >= AnalyticsDelayThreshold THEN "High Delay Zone"
  ELSE "Normal Operations"

(* The label of a zone's card on the Analytics page. *)
ZoneCardLabel(zone) ==
  IF zone.delay_count > AnalyticsDelayThreshold THEN "High Delay Zone"
  ELSE "Normal Operations"

(* zoneDelayData: the bar of a zone in the zone delays chart. *)
ZoneDelayData(zs) == [k \in 1..Len(zs) |-> [id |-> zs[k].id, delays |-> zs[k].delay_count]]

(* ------------------------------ jobs ----------------------------------- *)
JobRecords == [id : {"J1"}, status : {"pending", "delivered"}]

(* The data of GET /jobs. *)
JobCollections == SeqsOver(<<"J1">>, JobRecords)

(* The routes of the dashboard that load data on mount and show a loading  *)
(* state of their own.                                                     *)
DataViews == {"map", "jobs", "alerts", "analytics"}

(* The `detail` of an error response of the login endpoint. *)
LoginErrorDetails == {NoDetail, "Incorrect username or password"}

(* ----------------------------- state ----------------------------------- *)
VARIABLES
  user,          \* App: the session user's role, or NoUser
  token,         \* localStorage 'token'
  storedUser,    \* localStorage 'user': the stored user's role, or NoUser
  page,          \* the mounted route: "login" or one of Views; "loading" while
                 \* App shows its loading screen
  vehicles,      \* MapView state
  zones,         \* MapView state
  loading,       \* MapView state
  socket,        \* MapView's socket: "closed", "connecting", "open", "lost"
  alerts,        \* Alerts state
  alertsLoading, \* Alerts state `loading`
  filter,        \* Alerts state
  analyticsLoading, \* Analytics state `loading`
  dailyDeliveries,  \* Analytics state
  onTimePercentage, \* Analytics state
  zoneDelays,       \* Analytics state
  jobsLoading,      \* JobsBoard state `loading`
  jobs,             \* JobsBoard state
  inflight,      \* the requests awaiting their response, in request order
  toast,         \* the toast the last handler showed, or NoToast
  epoch,         \* number of logouts so far (the session epoch)
  view,          \* the vehicles array a reader obtained at the last render
  viewShared,    \* whether that array is still the object held in the state
  needsReload,   \* the socket reconnected and no snapshot was applied since
  fetchStart,    \* the alerts when the latest pending fetchAlerts of this mount started
  soloFetch,     \* whether no other fetchAlerts was pending when that one started
  missed,        \* the latest push patch that found no record of its id while
                 \* the snapshot of this mount was pending
  last           \* the last handler that ran and its inputs

vars == <<user, token, storedUser, page, vehicles, zones, loading, socket, alerts,
          alertsLoading, filter, analyticsLoading, dailyDeliveries,
          onTimePercentage, zoneDelays, jobsLoading, jobs, inflight, toast, epoch, view, viewShared,
          needsReload, fetchStart, soloFetch, missed, last>>

NoReq == [view |-> "none", live |-> FALSE, epoch |-> 0, filter |-> "all",
          alertId |-> "none"]

NoResp == [vehicles |-> <<>>, zones |-> <<>>, alerts |-> <<>>]

NoStart == [solo |-> FALSE, alerts |-> <<>>]

(* What `last` records of a handler run: its name, the request it resolved *)
(* (NoReq if none), the push data it got (NoPatch if none), the response   *)
(* collections it got (NoResp if none) and, for a fetchAlerts that         *)
(* resolved, the alerts at its start and whether it ran alone (NoStart     *)
(* otherwise).  `cause` is why the request was rejected, for a handler     *)
(* that ran on the rejection of a mounted view's request (NoCause          *)
(* otherwise).                                                             *)
Event(op, req, data, resp) ==
  [op |-> op, req |-> req, data |-> data, resp |-> resp, start |-> NoStart,
   cause |-> NoCause]

FetchEvent(op, req, resp, solo, alertsAtStart) ==
  [Event(op, req, NoPatch, resp) EXCEPT
     !.start = IF req.live /\ solo THEN [solo |-> TRUE, alerts |-> alertsAtStart]
               ELSE NoStart]

(* --------------------------- helpers ----------------------------------- *)
Ids(s) == {s[k].id : k \in 1..Len(s)}

(* Array.prototype.findIndex(v => v.id === id), 1-based; 0 when not found. *)
FindIndex(s, id) ==
  IF \E k \in 1..Len(s) : s[k].id = id
  THEN CHOOSE k \in 1..Len(s) : s[k].id = id /\ \A j \in 1..(k - 1) : s[j].id # id
  ELSE 0

RemoveAt(s, i) == SubSeq(s, 1, i - 1) \o SubSeq(s, i + 1, Len(s))

(* Unmounted with the pending requests left bound to the mounted state. *)
Unmounted_kept(reqs) == reqs

(* Unmounting a component: React drops the state updates its pending       *)
(* requests make afterwards, so what they asked for no longer matters.     *)
Unmounted(reqs) ==
  [k \in 1..Len(reqs) |->
     [reqs[k] EXCEPT !.live = FALSE, !.filter = "all", !.alertId = "none"]]

(* The responses to tell apart for the pending request i: all of S for a   *)
(* mounted view; for an unmounted view the response is dropped, so one     *)
(* response of S stands for all.                                           *)
ResponsesTo(i, S) == IF inflight[i].live THEN S ELSE {CHOOSE y \in S : TRUE}

LiveCount(kind) == Cardinality({k \in 1..Len(inflight) : inflight[k].view = kind /\ inflight[k].live})

(* ReplaceAll that keeps the previous records whose id the fetched          *)
(* collection lacks.                                                       *)
ReplaceAll_merged(prev, data) ==
  data \o SelectSeq(prev, LAMBDA r : r.id \notin {data[k].id : k \in 1..Len(data)})

(* setVehicles(vehiclesRes.data): the state becomes the fetched collection. *)
ReplaceAll(prev, data) == data

(* finallyLoading that leaves `loading` as it is. *)
finallyLoading_kept(prev) == prev

(* The finally branch of a view's fetch: setLoading(false). *)
finallyLoading(prev) == FALSE

(* catchFetchError that empties the store. *)
catchFetchError_cleared(prev) == <<>>

(* The catch branch of a fetch: a toast, and no state of the store is set. *)
catchFetchError(prev) == prev

(* VehicleUpdater that pushes the data onto the array instead of writing   *)
(* it at `index`.                                                          *)
VehicleUpdater_pushed(prev, data) ==
  [array |-> Append(prev, data), shared |-> FALSE]

(* VehicleUpdater that adds the data when no vehicle has its id. *)
VehicleUpdater_upsert(prev, data) ==
  LET index == FindIndex(prev, data.id)
  IN [array |-> IF index # 0 THEN [prev EXCEPT ![index] = data] ELSE Append(prev, data),
      shared |-> FALSE]

(* VehicleUpdater that writes into the array `prev` itself. *)
VehicleUpdater_inplace(prev, data) ==
  LET index == FindIndex(prev, data.id)
  IN [array |-> IF index # 0 THEN [prev EXCEPT ![index] = data] ELSE prev,
      shared |-> TRUE]

(* The updater of setVehicles in the 'message' handler. `shared` tells     *)
(* whether the array returned is the object `prev`.                        *)
VehicleUpdater(prev, data) ==
  LET updated == prev
      index == FindIndex(updated, data.id)
  IN [array |-> IF index # 0 THEN [updated EXCEPT ![index] = data] ELSE updated,
      shared |-> FALSE]

(* ------------------------------ Init ----------------------------------- *)
Init ==
  /\ user = NoUser
  /\ token = NoToken
  /\ storedUser = NoUser
  /\ page = "login"
  /\ vehicles = <<>>
  /\ zones = <<>>
  /\ loading = TRUE
  /\ socket = "closed"
  /\ alerts = <<>>
  /\ alertsLoading = TRUE
  /\ filter = "all"
  /\ analyticsLoading = TRUE
  /\ dailyDeliveries = <<>>
  /\ onTimePercentage = NoAggregate
  /\ zoneDelays = <<>>
  /\ jobsLoading = TRUE
  /\ jobs = <<>>
  /\ inflight = <<>>
  /\ toast = NoToast
  /\ epoch = 0
  /\ view = <<>>
  /\ viewShared = FALSE
  /\ needsReload = FALSE
  /\ fetchStart = <<>>
  /\ soloFetch = FALSE
  /\ missed = NoPatch
  /\ last = Event("init", NoReq, NoPatch, NoResp)

(* MountView whose cleanup leaves the socket of the unmounted MapView as   *)
(* it is.                                                                  *)
MountView_socketLeft(p, reqs) ==
  /\ vehicles' = <<>>
  /\ zones' = <<>>
  /\ loading' = TRUE
  /\ socket' = IF p = "map" THEN "connecting" ELSE socket
  /\ alerts' = <<>>
  /\ alertsLoading' = TRUE
  /\ filter' = "all"
  /\ analyticsLoading' = TRUE
  /\ dailyDeliveries' = <<>>
  /\ onTimePercentage' = NoAggregate
  /\ zoneDelays' = <<>>
  /\ jobsLoading' = TRUE
  /\ jobs' = <<>>
  /\ view' = <<>>
  /\ viewShared' = FALSE
  /\ needsReload' = FALSE
  /\ fetchStart' = <<>>
  /\ soloFetch' = (p = "alerts")
  /\ missed' = NoPatch
  /\ inflight' =
       IF p \in DataViews
       THEN Append(reqs, [view |-> p, live |-> TRUE, epoch |-> epoch', filter |-> "all",
                          alertId |-> "none"])
       ELSE reqs

(* The application is opened in a browser whose localStorage holds any    *)
(* combination of the two items: App shows its loading screen.             *)
InitSession ==
  /\ user = NoUser
  /\ token \in {NoToken, "tok"}
  /\ storedUser \in {NoUser} \cup Roles
  /\ page = "loading"
  /\ vehicles = <<>>
  /\ zones = <<>>
  /\ loading = TRUE
  /\ socket = "closed"
  /\ alerts = <<>>
  /\ alertsLoading = TRUE
  /\ filter = "all"
  /\ analyticsLoading = TRUE
  /\ dailyDeliveries = <<>>
  /\ onTimePercentage = NoAggregate
  /\ zoneDelays = <<>>
  /\ jobsLoading = TRUE
  /\ jobs = <<>>
  /\ inflight = <<>>
  /\ toast = NoToast
  /\ epoch = 0
  /\ view = <<>>
  /\ viewShared = FALSE
  /\ needsReload = FALSE
  /\ fetchStart = <<>>
  /\ soloFetch = FALSE
  /\ missed = NoPatch
  /\ last = Event("init", NoReq, NoPatch, NoResp)

(* The state of the views right after a mount of view p (useState initial  *)
(* values, then the mount effects), given the requests pending before.    *)
MountView(p, reqs) ==
  /\ vehicles' = <<>>
  /\ zones' = <<>>
  /\ loading' = TRUE
  /\ socket' = IF p = "map" THEN "connecting" ELSE "closed"
  /\ alerts' = <<>>
  /\ alertsLoading' = TRUE
  /\ filter' = "all"
  /\ analyticsLoading' = TRUE
  /\ dailyDeliveries' = <<>>
  /\ onTimePercentage' = NoAggregate
  /\ zoneDelays' = <<>>
  /\ jobsLoading' = TRUE
  /\ jobs' = <<>>
  /\ view' = <<>>
  /\ viewShared' = FALSE
  /\ needsReload' = FALSE
  /\ fetchStart' = <<>>
  /\ soloFetch' = (p = "alerts")
  /\ missed' = NoPatch
  /\ inflight' =
       IF p \in DataViews
       THEN Append(reqs, [view |-> p, live |-> TRUE, epoch |-> epoch', filter |-> "all",
                          alertId |-> "none"])
       ELSE reqs

(* ---------------------------- App.js ----------------------------------- *)
handleLogin(role) ==
  /\ page = "login"
  /\ token' = "tok"
  /\ storedUser' = role
  /\ user' = role
  /\ page' = "fleet"
  /\ epoch' = epoch
  /\ MountView("fleet", inflight)
  /\ last' = Event("handleLogin", NoReq, NoPatch, NoResp)
  /\ toast' = NoToast

(* handleLogout that leaves the token and the user record in localStorage. *)
handleLogout_kept ==
  /\ user # NoUser
  /\ epoch < MaxEpoch
  /\ UNCHANGED <<token, storedUser>>
  /\ user' = NoUser
  /\ page' = "login"
  /\ epoch' = epoch + 1
  /\ MountView("login", Unmounted(inflight))
  /\ last' = Event("handleLogout", NoReq, NoPatch, NoResp)
  /\ toast' = NoToast

handleLogout ==
  /\ user # NoUser
  /\ epoch < MaxEpoch
  /\ token' = NoToken
  /\ storedUser' = NoUser
  /\ user' = NoUser
  /\ page' = "login"
  /\ epoch' = epoch + 1
  /\ MountView("login", Unmounted(inflight))
  /\ last' = Event("handleLogout", NoReq, NoPatch, NoResp)
  /\ toast' = NoToast

(* RestoredUser that asks for the user record only. *)
RestoredUser_recordOnly(tok, record) == record

(* The startup effect of App: the user is set from the stored record if    *)
(* both items are in localStorage.                                         *)
RestoredUser(tok, record) ==
  IF tok # NoToken /\ record # NoUser THEN record ELSE NoUser

(* App's effect on mount, then the first render of the routes: the         *)
(* dashboard's index route with a user, the login route without.           *)
startup ==
  /\ page = "loading"
  /\ user' = RestoredUser(token, storedUser)
  /\ page' = IF user' # NoUser THEN "fleet" ELSE "login"
  /\ epoch' = epoch
  /\ MountView(page', inflight)
  /\ last' = Event("startup", NoReq, NoPatch, NoResp)
  /\ toast' = NoToast
  /\ UNCHANGED <<token, storedUser>>

(* The browser reloads the page: every component state and every pending   *)
(* request is gone, localStorage stays.                                    *)
Reload ==
  /\ page # "loading"
  /\ user' = NoUser
  /\ page' = "loading"
  /\ epoch' = epoch
  /\ MountView("loading", <<>>)
  /\ last' = Event("Reload", NoReq, NoPatch, NoResp)
  /\ toast' = NoToast
  /\ UNCHANGED <<token, storedUser>>

(* error.response?.data?.detail || 'Login failed' *)
LoginErrorToast(detail) == IF detail # NoDetail THEN detail ELSE "Login failed"

(* Login.handleSubmit, the POST rejected: a toast, onLogin is not called. *)
handleSubmitFail(detail) ==
  /\ page = "login"
  /\ toast' = LoginErrorToast(detail)
  /\ last' = Event("handleSubmitFail", NoReq, NoPatch, NoResp)
  /\ UNCHANGED <<user, token, storedUser, page, epoch, vehicles, zones, loading,
                 socket, alerts, alertsLoading, filter, analyticsLoading,
                 dailyDeliveries, onTimePercentage, zoneDelays, jobsLoading, jobs,
                 inflight, view, viewShared, needsReload, fetchStart, soloFetch,
                 missed>>

(* A sidebar link of Dashboard.js: the Outlet unmounts the current view    *)
(* and mounts the view of the route.                                       *)
Navigate(p) ==
  /\ user # NoUser
  /\ p # page
  /\ p \in DataViews => Len(inflight) < MaxInFlight
  /\ page' = p
  /\ epoch' = epoch
  /\ MountView(p, Unmounted(inflight))
  /\ last' = Event("Navigate", NoReq, NoPatch, NoResp)
  /\ toast' = NoToast
  /\ UNCHANGED <<user, token, storedUser>>

(* --------------------------- MapView.js -------------------------------- *)
session == <<user, token, storedUser, page, epoch>>
mapState == <<vehicles, zones, loading, socket>>
alertState == <<alerts, alertsLoading, filter, fetchStart, soloFetch>>
ghosts == <<view, viewShared, needsReload, missed>>
analyticsState == <<analyticsLoading, dailyDeliveries, onTimePercentage, zoneDelays>>
jobsState == <<jobsLoading, jobs>>

(* How one request of a Promise.all settled. *)
Rejected == [ok |-> FALSE, data |-> <<>>]
Fulfilled(data) == [ok |-> TRUE, data |-> data]

(* The ways the two requests of a load settle with at least one rejected. *)
FailedLoads ==
  {<<Fulfilled(vdata), Rejected>> : vdata \in VehicleCollections}
  \cup {<<Rejected, Fulfilled(zdata)>> : zdata \in ZoneCollections}
  \cup {<<Rejected, Rejected>>}

(* AfterLoad with each request awaited on its own. *)
AfterLoad_each(prev, own, all) ==
  IF own.ok THEN ReplaceAll(prev, own.data) ELSE catchFetchError(prev)

(* A collection after fetchData: await Promise.all([...]) throws when any  *)
(* request is rejected, so the setter of `own` runs only if all fulfilled. *)
AfterLoad(prev, own, all) ==
  IF \A k \in 1..Len(all) : all[k].ok
  THEN ReplaceAll(prev, own.data)
  ELSE catchFetchError(prev)

(* fetchData, both requests of the Promise.all fulfilled. *)
fetchDataOk(i, vdata, zdata) ==
  LET req == inflight[i] IN
  /\ req.view = "map"
  /\ inflight' = RemoveAt(inflight, i)
  /\ IF req.live
     THEN /\ vehicles' = AfterLoad(vehicles, Fulfilled(vdata),
                                    <<Fulfilled(vdata), Fulfilled(zdata)>>)
          /\ zones' = AfterLoad(zones, Fulfilled(zdata),
                                 <<Fulfilled(vdata), Fulfilled(zdata)>>)
          /\ loading' = finallyLoading(loading)
          /\ viewShared' = FALSE
          /\ needsReload' = FALSE
          /\ missed' = NoPatch
          /\ last' = Event("fetchDataOk", req, NoPatch,
                           [vehicles |-> vdata, zones |-> zdata, alerts |-> <<>>])
          /\ UNCHANGED <<socket, view>>
     ELSE /\ last' = Event("fetchDataOk", req, NoPatch, NoResp)
          /\ UNCHANGED <<mapState, ghosts>>
  /\ toast' = NoToast
  /\ UNCHANGED <<session, alertState>>
  /\ UNCHANGED analyticsState
  /\ UNCHANGED jobsState

(* fetchData, at least one of the two requests rejected (network error,   *)
(* non-2xx); `settled` tells how each of the two settled.  What the        *)
(* requests of an unmounted view got is dropped.                           *)
fetchDataFail(i, cause, settled) ==
  LET req == inflight[i] IN
  /\ req.view = "map"
  /\ inflight' = RemoveAt(inflight, i)
  /\ toast' = "Failed to load map data"
  /\ vehicles' = IF req.live THEN AfterLoad(vehicles, settled[1], settled) ELSE vehicles
  /\ zones' = IF req.live THEN AfterLoad(zones, settled[2], settled) ELSE zones
  /\ loading' = IF req.live THEN finallyLoading(loading) ELSE loading
  /\ last' = [Event("fetchDataFail", req, NoPatch,
                    IF req.live
                    THEN [vehicles |-> settled[1].data, zones |-> settled[2].data,
                          alerts |-> <<>>]
                    ELSE NoResp)
                EXCEPT !.cause = IF req.live THEN cause ELSE NoCause]
  /\ UNCHANGED <<session, socket, alertState, ghosts>>
  /\ UNCHANGED analyticsState
  /\ UNCHANGED jobsState

(* newSocket.on('connect'): logs only. *)
connect ==
  /\ socket \in {"connecting", "lost"}
  /\ socket' = "open"
  /\ needsReload' = (needsReload \/ socket = "lost")
  /\ last' = Event("connect", NoReq, NoPatch, NoResp)
  /\ toast' = NoToast
  /\ UNCHANGED <<session, vehicles, zones, loading, alertState, inflight,
                 view, viewShared, missed>>
  /\ UNCHANGED analyticsState
  /\ UNCHANGED jobsState

(* The connection drops; socket.io-client reconnects by itself. *)
disconnect ==
  /\ socket = "open"
  /\ socket' = "lost"
  /\ last' = Event("disconnect", NoReq, NoPatch, NoResp)
  /\ toast' = NoToast
  /\ UNCHANGED <<session, vehicles, zones, loading, alertState, inflight, ghosts>>
  /\ UNCHANGED analyticsState
  /\ UNCHANGED jobsState

(* newSocket.on('message') *)
message(type, data) ==
  /\ socket = "open"
  /\ IF type = "vehicle_update"
     THEN LET r == VehicleUpdater(vehicles, data)
              unknown == FindIndex(vehicles, data.id) = 0 /\ LiveCount("map") > 0
          IN /\ vehicles' = r.array
             /\ view' = IF viewShared /\ r.shared THEN r.array ELSE view
             /\ viewShared' = (viewShared /\ r.shared)
             /\ missed' = IF unknown THEN data ELSE missed
             /\ last' = Event("message", NoReq, data, NoResp)
     ELSE /\ last' = Event("message_ignored", NoReq, NoPatch, NoResp)
          /\ UNCHANGED <<vehicles, view, viewShared, missed>>
  /\ toast' = NoToast
  /\ UNCHANGED <<session, zones, loading, socket, alertState, inflight, needsReload>>
  /\ UNCHANGED analyticsState
  /\ UNCHANGED jobsState

(* A render of MapView reads the vehicles array of the state. *)
Render ==
  /\ page = "map"
  /\ ~loading
  /\ ~(viewShared /\ view = vehicles)
  /\ view' = vehicles
  /\ viewShared' = TRUE
  /\ last' = Event("Render", NoReq, NoPatch, NoResp)
  /\ toast' = NoToast
  /\ UNCHANGED <<session, mapState, alertState, inflight, needsReload, missed>>
  /\ UNCHANGED analyticsState
  /\ UNCHANGED jobsState

(* ---------------------------- Alerts.js -------------------------------- *)
(* The filter select's onChange, then the effect on [filter]: fetchAlerts. *)
setFilter(f) ==
  /\ page = "alerts"
  /\ ~alertsLoading
  /\ f # filter
  /\ Len(inflight) < MaxInFlight
  /\ filter' = f
  /\ inflight' = Append(inflight,
                        [view |-> "alerts", live |-> TRUE, epoch |-> epoch, filter |-> f,
                         alertId |-> "none"])
  /\ fetchStart' = alerts
  /\ soloFetch' = (LiveCount("alerts") = 0)
  /\ last' = Event("setFilter", NoReq, NoPatch, NoResp)
  /\ toast' = NoToast
  /\ UNCHANGED <<session, mapState, alerts, alertsLoading, ghosts>>
  /\ UNCHANGED analyticsState
  /\ UNCHANGED jobsState

fetchAlertsOk(i, data) ==
  LET req == inflight[i] IN
  /\ req.view = "alerts"
  /\ data \in AlertCollections(req.filter)
  /\ inflight' = RemoveAt(inflight, i)
  /\ IF req.live
     THEN /\ alerts' = ReplaceAll(alerts, data)
          /\ alertsLoading' = finallyLoading(alertsLoading)
          /\ fetchStart' = <<>>
          /\ soloFetch' = FALSE
          /\ last' = FetchEvent("fetchAlertsOk", req,
                                [vehicles |-> <<>>, zones |-> <<>>, alerts |-> data],
                                soloFetch, fetchStart)
     ELSE /\ last' = Event("fetchAlertsOk", req, NoPatch, NoResp)
          /\ UNCHANGED <<alerts, alertsLoading, fetchStart, soloFetch>>
  /\ toast' = NoToast
  /\ UNCHANGED <<session, mapState, filter, ghosts>>
  /\ UNCHANGED analyticsState
  /\ UNCHANGED jobsState

fetchAlertsFail(i, cause) ==
  LET req == inflight[i] IN
  /\ req.view = "alerts"
  /\ inflight' = RemoveAt(inflight, i)
  /\ toast' = "Failed to load alerts"
  /\ alerts' = catchFetchError(alerts)
  /\ alertsLoading' = IF req.live THEN finallyLoading(alertsLoading) ELSE alertsLoading
  /\ fetchStart' = IF req.live THEN <<>> ELSE fetchStart
  /\ soloFetch' = IF req.live THEN FALSE ELSE soloFetch
  /\ last' = [FetchEvent("fetchAlertsFail", req, NoResp, soloFetch, fetchStart)
                EXCEPT !.cause = IF req.live THEN cause ELSE NoCause]
  /\ UNCHANGED <<session, mapState, filter, ghosts>>
  /\ UNCHANGED analyticsState
  /\ UNCHANGED jobsState

(* The acknowledge button (shown for an unacknowledged alert to an admin): *)
(* handleAcknowledge up to its await.                                      *)
handleAcknowledge(alertId) ==
  /\ page = "alerts"
  /\ ~alertsLoading
  /\ user = "admin"
  /\ \E k \in 1..Len(alerts) : alerts[k].id = alertId /\ ~alerts[k].acknowledged
  /\ Len(inflight) < MaxInFlight
  /\ inflight' = Append(inflight,
                        [view |-> "ack", live |-> TRUE, epoch |-> epoch, filter |-> "all",
                         alertId |-> alertId])
  /\ last' = Event("handleAcknowledge", NoReq, NoPatch, NoResp)
  /\ toast' = NoToast
  /\ UNCHANGED <<session, mapState, alertState, ghosts>>
  /\ UNCHANGED analyticsState
  /\ UNCHANGED jobsState

(* Acknowledged that marks every alert of the list. *)
Acknowledged_all(prev, alertId) ==
  [k \in 1..Len(prev) |-> [prev[k] EXCEPT !.acknowledged = TRUE]]

(* prev.map(alert => alert.id === alertId ? {...alert, acknowledged: true} : alert) *)
Acknowledged(prev, alertId) ==
  [k \in 1..Len(prev) |->
     IF prev[k].id = alertId THEN [prev[k] EXCEPT !.acknowledged = TRUE] ELSE prev[k]]

(* handleAcknowledge after its await, the PUT fulfilled. *)
acknowledgeOk(i) ==
  LET req == inflight[i] IN
  /\ req.view = "ack"
  /\ inflight' = RemoveAt(inflight, i)
  /\ alerts' = IF req.live THEN Acknowledged(alerts, req.alertId) ELSE alerts
  /\ toast' = "Alert acknowledged"
  /\ last' = Event("acknowledgeOk", req, NoPatch, NoResp)
  /\ UNCHANGED <<session, mapState, alertsLoading, filter, fetchStart, soloFetch, ghosts>>
  /\ UNCHANGED analyticsState
  /\ UNCHANGED jobsState

(* catchAcknowledgeError that leaves the alert marked acknowledged. *)
catchAcknowledgeError_marked(prev, alertId) ==
  [k \in 1..Len(prev) |->
     IF prev[k].id = alertId THEN [prev[k] EXCEPT !.acknowledged = TRUE] ELSE prev[k]]

(* The catch branch of handleAcknowledge: a toast, and no state is set. *)
catchAcknowledgeError(prev, alertId) == prev

(* error.response?.data?.detail || 'Failed to acknowledge alert' *)
AcknowledgeErrorToast(detail) ==
  IF detail # NoDetail THEN detail ELSE "Failed to acknowledge alert"

(* handleAcknowledge after its await, the PUT rejected with the given      *)
(* detail in its response (NoDetail: no response, or one without detail).  *)
acknowledgeFail(i, detail) ==
  LET req == inflight[i] IN
  /\ req.view = "ack"
  /\ inflight' = RemoveAt(inflight, i)
  /\ alerts' = catchAcknowledgeError(alerts, req.alertId)
  /\ toast' = AcknowledgeErrorToast(detail)
  /\ last' = Event("acknowledgeFail", req, NoPatch, NoResp)
  /\ UNCHANGED <<session, mapState, alertsLoading, filter, fetchStart, soloFetch, ghosts>>
  /\ UNCHANGED analyticsState
  /\ UNCHANGED jobsState

(* --------------------- Analytics (Dashboard.js) ------------------------ *)
(* fetchAnalytics, the three requests of the Promise.all fulfilled. *)
fetchAnalyticsOk(i, daily, onTime, zdata) ==
  LET req == inflight[i] IN
  /\ req.view = "analytics"
  /\ inflight' = RemoveAt(inflight, i)
  /\ IF req.live
     THEN /\ dailyDeliveries' = DailySeries(daily)
          /\ onTimePercentage' = onTime
          /\ zoneDelays' = zdata
          /\ analyticsLoading' = finallyLoading(analyticsLoading)
     ELSE UNCHANGED analyticsState
  /\ last' = Event("fetchAnalyticsOk", req, NoPatch, NoResp)
  /\ toast' = NoToast
  /\ UNCHANGED <<session, mapState, alertState, ghosts>>
  /\ UNCHANGED jobsState

(* fetchAnalytics, one of the three requests rejected. *)
fetchAnalyticsFail(i, cause) ==
  LET req == inflight[i] IN
  /\ req.view = "analytics"
  /\ inflight' = RemoveAt(inflight, i)
  /\ toast' = "Failed to load analytics"
  /\ analyticsLoading' =
       IF req.live THEN finallyLoading(analyticsLoading) ELSE analyticsLoading
  /\ last' = [Event("fetchAnalyticsFail", req, NoPatch, NoResp)
                EXCEPT !.cause = IF req.live THEN cause ELSE NoCause]
  /\ UNCHANGED <<session, mapState, alertState, ghosts, dailyDeliveries,
                 onTimePercentage, zoneDelays>>
  /\ UNCHANGED jobsState

(* ------------------------ JobsBoard (part_000) ------------------------- *)
(* fetchJobs, the GET fulfilled. *)
fetchJobsOk(i, data) ==
  LET req == inflight[i] IN
  /\ req.view = "jobs"
  /\ inflight' = RemoveAt(inflight, i)
  /\ jobs' = IF req.live THEN ReplaceAll(jobs, data) ELSE jobs
  /\ jobsLoading' = IF req.live THEN finallyLoading(jobsLoading) ELSE jobsLoading
  /\ last' = Event("fetchJobsOk", req, NoPatch, NoResp)
  /\ toast' = NoToast
  /\ UNCHANGED <<session, mapState, alertState, ghosts, analyticsState>>

(* fetchJobs, the GET rejected. *)
fetchJobsFail(i, cause) ==
  LET req == inflight[i] IN
  /\ req.view = "jobs"
  /\ inflight' = RemoveAt(inflight, i)
  /\ toast' = "Failed to load jobs"
  /\ jobs' = catchFetchError(jobs)
  /\ jobsLoading' = IF req.live THEN finallyLoading(jobsLoading) ELSE jobsLoading
  /\ last' = [Event("fetchJobsFail", req, NoPatch, NoResp)
                EXCEPT !.cause = IF req.live THEN cause ELSE NoCause]
  /\ UNCHANGED <<session, mapState, alertState, ghosts, analyticsState>>

(* ------------------------- specifications ------------------------------ *)
SessionNext(views) ==
  \/ \E role \in Roles : handleLogin(role)
  \/ handleLogout
  \/ \E p \in views : Navigate(p)

MapFetchNext ==
  \/ \E i \in 1..Len(inflight) :
        \E vdata \in ResponsesTo(i, VehicleCollections),
           zdata \in ResponsesTo(i, ZoneCollections) : fetchDataOk(i, vdata, zdata)
  \/ \E i \in 1..Len(inflight), cause \in FailureCauses :
        \E settled \in ResponsesTo(i, FailedLoads) : fetchDataFail(i, cause, settled)

MapPushNext ==
  \/ connect
  \/ disconnect
  \/ \E type \in MessageTypes, data \in Patches : message(type, data)

AlertsNext ==
  \/ \E f \in Filters : setFilter(f)
  \/ \E i \in 1..Len(inflight) :
        \E data \in ResponsesTo(i, AllAlertCollections) : fetchAlertsOk(i, data)
  \/ \E i \in 1..Len(inflight), cause \in FailureCauses : fetchAlertsFail(i, cause)
  \/ \E a \in AlertIds : handleAcknowledge(a)
  \/ \E i \in 1..Len(inflight) : acknowledgeOk(i)
  \/ \E i \in 1..Len(inflight), detail \in ErrorDetails : acknowledgeFail(i, detail)

AnalyticsNext ==
  \/ \E i \in 1..Len(inflight) :
        \E daily \in ResponsesTo(i, DailyResponses),
           onTime \in ResponsesTo(i, OnTimeResponses),
           zdata \in ResponsesTo(i, ZoneCollections) :
          fetchAnalyticsOk(i, daily, onTime, zdata)
  \/ \E i \in 1..Len(inflight), cause \in FailureCauses : fetchAnalyticsFail(i, cause)

(* The session and the live map. *)
Next == SessionNext({"fleet", "map"}) \/ MapFetchNext \/ MapPushNext

Spec == Init /\ [][Next]_vars

(* The session and the snapshot loaders of both views, with the alerts     *)
(* view's acknowledge; no push channel.                                    *)
NextLoad == SessionNext(Views) \/ MapFetchNext \/ AlertsNext

SpecLoad == Init /\ [][NextLoad]_vars

(* The session and the live map, with the renders that read the store. *)
NextRead == Next \/ Render

SpecRead == Init /\ [][NextRead]_vars

(* The session and the analytics page. *)
NextAnalytics == SessionNext({"fleet", "analytics"}) \/ AnalyticsNext

SpecAnalytics == Init /\ [][NextAnalytics]_vars

(* The application from its start in a browser with any stored items: the *)
(* session handlers, the start and reload of the page, and the analytics   *)
(* page as the data view.                                                  *)
NextSession ==
  \/ SessionNext({"fleet", "analytics"})
  \/ startup
  \/ Reload
  \/ \E detail \in LoginErrorDetails : handleSubmitFail(detail)
  \/ AnalyticsNext

SpecSession == InitSession /\ [][NextSession]_vars

JobsNext ==
  \/ \E i \in 1..Len(inflight) :
        \E data \in ResponsesTo(i, JobCollections) : fetchJobsOk(i, data)
  \/ \E i \in 1..Len(inflight), cause \in FailureCauses : fetchJobsFail(i, cause)

AlertsLoadNext ==
  \/ \E f \in Filters : setFilter(f)
  \/ \E i \in 1..Len(inflight) :
        \E data \in ResponsesTo(i, AllAlertCollections) : fetchAlertsOk(i, data)
  \/ \E i \in 1..Len(inflight), cause \in FailureCauses : fetchAlertsFail(i, cause)

(* The session and the loads of the four data views. *)
NextViews ==
  \/ SessionNext({"fleet"} \cup DataViews)
  \/ MapFetchNext
  \/ JobsNext
  \/ AlertsLoadNext
  \/ AnalyticsNext

SpecViews == Init /\ [][NextViews]_vars

(* ============================== claims ================================== *)
FailureToast(op) ==
  IF op = "fetchDataFail" THEN "Failed to load map data" ELSE "Failed to load alerts"

(* C1: a push patch whose version is older than the version of the stored *)
(* record of its id leaves the vehicles unchanged (the claim's case of a   *)
(* strictly older version, as in its V1 scenario).                         *)
C1_StalePatchDiscarded ==
  [][(/\ last'.op = "message"
      /\ \E k \in 1..Len(vehicles) :
            /\ vehicles[k].id = last'.data.id
            /\ last'.data.last_updated < vehicles[k].last_updated)
     => vehicles' = vehicles]_vars

(* C2: when a snapshot introduces the id of a patch that found no record   *)
(* of its id earlier, the record of that id carries the patch's fields.    *)
C2_UnknownIdPatchReplayed ==
  [][(/\ last'.op = "fetchDataOk"
      /\ last'.req.live
      /\ missed # NoPatch
      /\ missed.id \in Ids(vehicles'))
     => LET k == FindIndex(vehicles', missed.id)
        IN /\ vehicles'[k].status = missed.status
           /\ vehicles'[k].last_updated = missed.last_updated]_vars

(* C3: when a snapshot is applied, a patch that arrived while its fetch    *)
(* was in flight is applied on top of it: the record of the patch's id is  *)
(* not the record of the snapshot.                                         *)
C3_ConcurrentPatchKept ==
  [][(/\ last'.op = "fetchDataOk"
      /\ last'.req.live
      /\ missed # NoPatch
      /\ missed.id \in Ids(last'.resp.vehicles))
     => vehicles' = VehicleUpdater(last'.resp.vehicles, missed).array]_vars

(* C4: for each kind at most one snapshot fetch is in flight at any time.  *)
C4_AtMostOneFetchInFlight ==
  \A kind \in {"map", "alerts"} : LiveCount(kind) <= 1

(* C5 as stated: after a failed snapshot fetch the store contents of the   *)
(* kind are what they were when the fetch started, and a failure notice    *)
(* is shown.                                                               *)
C5_FailedFetchLeavesStoreAsAtStart ==
  (last.op = "fetchAlertsFail" /\ last.req.live /\ last.start.solo)
    => (alerts = last.start.alerts /\ toast = "Failed to load alerts")

(* C5 as amended: handling the failure of a snapshot fetch changes no      *)
(* store (the contents are what they were right before the failure was     *)
(* handled) and shows a failure notice.                                    *)
C5_FailureChangesNoStore ==
  [][last'.op \in {"fetchDataFail", "fetchAlertsFail"}
     => /\ vehicles' = vehicles
        /\ zones' = zones
        /\ alerts' = alerts
        /\ toast' = FailureToast(last'.op)]_vars

C5_Witness ==
  /\ last.op = "fetchAlertsFail"
  /\ last.req.live
  /\ last.start.solo
  /\ alerts # <<>>
  /\ alerts # last.start.alerts
  /\ toast = "Failed to load alerts"

(* C6: the response of a fetch started in an earlier session epoch writes  *)
(* nothing into the state of the map view.                                 *)
C6_NoWriteAfterLogout ==
  [][(last'.op = "fetchDataOk" /\ last'.req.epoch # epoch')
     => (vehicles' = vehicles /\ zones' = zones /\ loading' = loading)]_vars

C6_Witness ==
  /\ last.op = "fetchDataOk"
  /\ last.req.epoch < epoch
  /\ page = "map"
  /\ loading
  /\ vehicles = <<>>

(* C7: after a reconnect no patch is applied to the store before a         *)
(* snapshot reload has completed.                                          *)
C7_ReloadBeforePatches ==
  [][(last'.op = "message" /\ needsReload) => vehicles' = vehicles]_vars

(* C8: a patch applied to an existing record merges: the fields the patch  *)
(* names take its values, the other fields of the record keep theirs.      *)
C8_PatchMerges ==
  [][(last'.op = "message" /\ FindIndex(vehicles, last'.data.id) # 0)
     => LET k == FindIndex(vehicles, last'.data.id)
            old == vehicles[k]
            new == vehicles'[k]
            p == last'.data
        IN /\ \A f \in DOMAIN p : f \in DOMAIN new /\ new[f] = p[f]
           /\ \A f \in (DOMAIN old) \ (DOMAIN p) :
                 f \in DOMAIN new /\ new[f] = old[f]]_vars

C10_NoTornRead ==
  [][last'.op \in {"message", "message_ignored", "fetchDataOk", "fetchDataFail"}
     => view' = view]_vars

C10_Witness ==
  /\ last.op = "message"
  /\ view # <<>>
  /\ view # vehicles
  /\ Ids(view) = Ids(vehicles)

C12_FailedAcknowledgeLeavesUnacknowledged ==
  [][(last'.op = "acknowledgeFail" /\ last'.req.live)
     => /\ Len(alerts') = Len(alerts)
        /\ \A k \in 1..Len(alerts) :
              IF alerts[k].id = last'.req.alertId
              THEN alerts'[k].id = alerts[k].id /\ ~alerts'[k].acknowledged
              ELSE alerts'[k] = alerts[k]
        /\ toast' \in {AcknowledgeErrorToast(d) : d \in ErrorDetails}]_vars

(* C12 as amended: handling the failure of an acknowledge changes no       *)
(* alert (the alert of the request keeps the state it had right before     *)
(* the failure was handled) and shows an error.                            *)
C12_FailedAcknowledgeChangesNothing ==
  [][last'.op = "acknowledgeFail"
     => /\ alerts' = alerts
        /\ toast' \in {AcknowledgeErrorToast(d) : d \in ErrorDetails}
        /\ toast' # NoToast]_vars

C12_Witness ==
  /\ last.op = "acknowledgeFail"
  /\ last.req.live
  /\ Len(alerts) = 2
  /\ \E k \in 1..2 : alerts[k].id = last.req.alertId /\ ~alerts[k].acknowledged
  /\ toast = "Failed to acknowledge alert"

(* C13, for a refetch that is pending while an acknowledgement is          *)
(* confirmed: an alert that was unacknowledged when the refetch started    *)
(* and that the client marked acknowledged once its PUT was fulfilled is   *)
(* not shown unacknowledged when the refetch resolves.                     *)
C13_AcknowledgedOneWay ==
  [][(last'.op = "fetchAlertsOk" /\ last'.req.live /\ soloFetch)
     => \A k \in 1..Len(alerts) :
           (/\ alerts[k].acknowledged
            /\ \E j \in 1..Len(fetchStart) :
                  fetchStart[j].id = alerts[k].id /\ ~fetchStart[j].acknowledged)
             => \A j \in 1..Len(alerts') :
                   alerts'[j].id = alerts[k].id => alerts'[j].acknowledged]_vars

(* C14: logout removes the stored token and user record, sets the session *)
(* user to null and leaves every store empty; and the response of a        *)
(* request of an ended session puts no entity into the stores of a         *)
(* following session.                                                      *)
C14_LogoutTearsDown ==
  [][/\ last'.op = "handleLogout"
        => /\ token' = NoToken
           /\ storedUser' = NoUser
           /\ user' = NoUser
           /\ vehicles' = <<>> /\ zones' = <<>> /\ alerts' = <<>>
           /\ view' = <<>>
     /\ (last'.req # NoReq /\ last'.req.epoch # epoch')
        => (vehicles' = vehicles /\ zones' = zones /\ alerts' = alerts)]_vars

C14_Witness ==
  /\ last.op = "fetchAlertsOk"
  /\ last.req.epoch < epoch
  /\ user # NoUser
  /\ token # NoToken
  /\ storedUser = user
  /\ page = "alerts"
  /\ alerts = <<>>

(* C15: when a snapshot request of a mounted view is rejected because the  *)
(* backend refuses the token, the session ends: the token is removed and   *)
(* the session user is null.                                               *)
C15_AuthFailureEndsSession ==
  [][(/\ last'.op \in {"fetchDataFail", "fetchAlertsFail"}
      /\ last'.req.live
      /\ last'.cause = "auth")
     => (token' = NoToken /\ user' = NoUser)]_vars

(* C16: a patch for an id that the store does not hold is kept by the      *)
(* client (buffered, the newest one also when the buffer is full): the     *)
(* state of the map view after the message records it, so it differs from  *)
(* the state before.                                                       *)
C16_UnknownIdPatchKept ==
  [][(last'.op = "message" /\ FindIndex(vehicles, last'.data.id) = 0)
     => mapState' # mapState]_vars

(* C17, its last part: a push message that changes no record of the store *)
(* (no patch accepted) notifies no reader: the array a reader holds stays  *)
(* the array of the state, so no new render is due.                        *)
C17_NoChangeNoNotification ==
  [][(last'.op = "message" /\ vehicles' = vehicles /\ viewShared)
     => viewShared']_vars

(* C18: once MapView is unmounted (its effect cleanup has closed the       *)
(* socket) its socket is closed, none of its socket callbacks runs, and    *)
(* so no push message changes any state.                                   *)
C18_NoCallbackAfterUnregister ==
  [][page # "map"
     => /\ socket = "closed"
        /\ last'.op \notin {"connect", "disconnect", "message", "message_ignored"}]_vars

C18_Witness ==
  /\ last.op = "Navigate"
  /\ page = "fleet"
  /\ socket = "closed"
  /\ \E k \in 1..Len(inflight) : inflight[k].view = "map" /\ ~inflight[k].live

(* C19: whenever the Analytics page is shown and the number of delivered   *)
(* jobs is 0, or no aggregate was loaded, the on-time percentage shown is  *)
(* the number 0.                                                           *)
C19_OnTimeZeroWithoutDeliveries ==
  (/\ page = "analytics"
   /\ ~analyticsLoading
   /\ (onTimePercentage = NoAggregate \/ onTimePercentage.total_jobs = Num(0)))
    => OnTimeShown(onTimePercentage) = Num(0)

C19_Witness ==
  /\ page = "analytics"
  /\ ~analyticsLoading
  /\ last.op = "fetchAnalyticsOk"
  /\ onTimePercentage.total_jobs = Num(0)
  /\ onTimePercentage.on_time_percentage = Null
  /\ OnTimeShown(onTimePercentage) = Num(0)

(* C20: the daily series that a successful load shows has one entry for    *)
(* each day of the window, a day without deliveries included with count 0, *)
(* and its entries are in chronological order.                             *)
C20_DailySeriesCompleteAndSorted ==
  (page = "analytics" /\ last.op = "fetchAnalyticsOk" /\ last.req.live)
    => /\ Len(dailyDeliveries) = WindowDays
       /\ \A k \in 1..WindowDays : dailyDeliveries[k].date = WindowDay(k)
       /\ \A k \in 1..WindowDays : dailyDeliveries[k].deliveries \in {0, 2}

C20_Witness ==
  /\ page = "analytics"
  /\ last.op = "fetchAnalyticsOk"
  /\ last.req.live
  /\ Len(dailyDeliveries) = WindowDays
  /\ dailyDeliveries[3].deliveries = 0
  /\ dailyDeliveries[2].deliveries = 2

(* C21: for every zone loaded, the delay shown (chart bar, map popup) is   *)
(* the record's delay_count, and the zone is marked high-delay exactly     *)
(* when delay_count > 10, by the Analytics card and by the map circle      *)
(* alike.                                                                  *)
C21_ZoneDelayClassification ==
  \A k \in 1..Len(zoneDelays) :
     LET zone == zoneDelays[k] IN
     /\ ZoneDelayData(zoneDelays)[k].delays = zone.delay_count
     /\ MapZoneDelayShown(zone) = zone.delay_count
     /\ (ZoneCardLabel(zone) = "High Delay Zone") = (zone.delay_count > 10)
     /\ (MapZoneColor(zone) = "#ef4444") = (zone.delay_count > 10)

C21_Witness ==
  /\ page = "analytics"
  /\ ~analyticsLoading
  /\ \E k \in 1..Len(zoneDelays) :
        /\ zoneDelays[k].delay_count = 10
        /\ ZoneCardLabel(zoneDelays[k]) = "Normal Operations"
        /\ MapZoneColor(zoneDelays[k]) = "#3b82f6"

(* C22: a push message changes the vehicles only by replacing the entry   *)
(* whose id is the message's id: a message of another type or for an id    *)
(* no vehicle has leaves the list as it is, a vehicle_update changes       *)
(* neither the number nor the order of the ids, and no message changes     *)
(* the zones.                                                              *)
C22_MessageReplacesMatchingEntryOnly ==
  [][last'.op \in {"message", "message_ignored"}
     => /\ zones' = zones
        /\ Len(vehicles') = Len(vehicles)
        /\ \A k \in 1..Len(vehicles) :
              /\ vehicles'[k].id = vehicles[k].id
              /\ vehicles'[k] # vehicles[k]
                   => (last'.op = "message" /\ vehicles'[k] = last'.data)
        /\ (last'.op = "message_ignored" \/ last'.data.id \notin Ids(vehicles))
              => vehicles' = vehicles]_vars

C22_Witness ==
  /\ last.op = "message"
  /\ Len(vehicles) = 2
  /\ zones # <<>>
  /\ vehicles[2] = last.data
  /\ vehicles[1].status = "idle"

(* C23: one load of the map replaces the vehicles and the zones together  *)
(* or neither: when a request of the load is rejected both collections     *)
(* stay as they are, also the one whose request was fulfilled; when both   *)
(* are fulfilled both become the collections of that load.                 *)
C23_VehiclesAndZonesTogether ==
  [][/\ last'.op = "fetchDataFail"
        => (vehicles' = vehicles /\ zones' = zones)
     /\ (last'.op = "fetchDataOk" /\ last'.req.live)
        => (vehicles' = last'.resp.vehicles /\ zones' = last'.resp.zones)]_vars

C23_Witness ==
  /\ last.op = "fetchDataFail"
  /\ last.req.live
  /\ Len(last.resp.vehicles) = 2
  /\ last.resp.zones = <<>>
  /\ vehicles = <<>>
  /\ zones = <<>>
  /\ ~loading

(* C24: after any sequence of login, logout, start and reload, a session  *)
(* user implies that the token and the user record are both stored; login  *)
(* stores both, logout removes both and sets the user to null, a failed    *)
(* login stores nothing, and the start restores the user exactly when      *)
(* both items are present, leaving them as they are.                       *)
C24_UserImpliesStoredSession ==
  [][/\ user' # NoUser => (token' # NoToken /\ storedUser' = user')
     /\ last'.op = "handleLogin"
          => (user' # NoUser /\ token' # NoToken /\ storedUser' = user')
     /\ last'.op = "handleLogout"
          => (user' = NoUser /\ token' = NoToken /\ storedUser' = NoUser)
     /\ last'.op = "handleSubmitFail"
          => (user' = user /\ token' = token /\ storedUser' = storedUser)
     /\ last'.op = "startup"
          => /\ (user' # NoUser) = (token # NoToken /\ storedUser # NoUser)
             /\ token' = token /\ storedUser' = storedUser]_vars

C24_Witness ==
  /\ last.op = "startup"
  /\ token = NoToken
  /\ storedUser # NoUser
  /\ user = NoUser
  /\ page = "login"

(* C25: an acknowledge request is sent only by an admin and only for an    *)
(* alert that the local state shows unacknowledged, and sending it changes *)
(* no alert; when the request succeeded, the alert of its id is            *)
(* acknowledged and every other alert is as before.                        *)
C25_AcknowledgeOnlyUnackedByAdmin ==
  [][/\ last'.op = "handleAcknowledge"
          => LET req == inflight'[Len(inflight')] IN
             /\ user = "admin"
             /\ req.view = "ack"
             /\ \E k \in 1..Len(alerts) :
                   alerts[k].id = req.alertId /\ ~alerts[k].acknowledged
             /\ alerts' = alerts
     /\ (last'.op = "acknowledgeOk" /\ last'.req.live)
          => /\ Len(alerts') = Len(alerts)
             /\ \A k \in 1..Len(alerts) :
                   alerts'[k] = IF alerts[k].id = last'.req.alertId
                                THEN [alerts[k] EXCEPT !.acknowledged = TRUE]
                                ELSE alerts[k]]_vars

C25_Witness ==
  /\ last.op = "acknowledgeOk"
  /\ last.req.live
  /\ user = "admin"
  /\ Len(alerts) = 2
  /\ \E k \in 1..2 : alerts[k].id = last.req.alertId /\ alerts[k].acknowledged
  /\ \E k \in 1..2 : alerts[k].id # last.req.alertId /\ ~alerts[k].acknowledged

(* C26: when the fetch of a mounted data view resolves, with success or   *)
(* with failure, the view's loading is false; and the loading of a view,   *)
(* once false, stays false as long as the view is mounted.                 *)
C26_LoadingEndsAndStaysEnded ==
  [][/\ (last'.req.live /\ last'.req.view = "map") => ~loading'
     /\ (last'.req.live /\ last'.req.view = "jobs") => ~jobsLoading'
     /\ (last'.req.live /\ last'.req.view = "alerts") => ~alertsLoading'
     /\ (last'.req.live /\ last'.req.view = "analytics") => ~analyticsLoading'
     /\ last'.op \notin {"Navigate", "handleLogin", "handleLogout"}
          => /\ (page = "map" /\ ~loading) => ~loading'
             /\ (page = "jobs" /\ ~jobsLoading) => ~jobsLoading'
             /\ (page = "alerts" /\ ~alertsLoading) => ~alertsLoading'
             /\ (page = "analytics" /\ ~analyticsLoading) => ~analyticsLoading']_vars

C26_Witness ==
  /\ page = "jobs"
  /\ last.op = "fetchJobsFail"
  /\ last.req.live
  /\ ~jobsLoading
  /\ jobs = <<>>

====
